---- MODULE Spec2Model ----
(***************************************************************************)
(* pretty-postgres: main and the generate command (src/unnamed/part_000,   *)
(* the current main.ts) with the helpers of src/src/utils.ts.              *)
(*                                                                         *)
(* A string is a sequence of one-character strings, so that length,        *)
(* padding, splitting, trimming and replacement are computed character by  *)
(* character as the JavaScript code computes them.                         *)
(***************************************************************************)
EXTENDS Integers, Sequences, FiniteSets, TLC

VARIABLES pc, db, fileType, columns, enums, schemaString, schema,
          longestColumnName, longestColumnType, longestColumnDefault,
          file, thrown, released, poolEnded, doneLogged,
          argv, argIndex, connectionString, filename, filetype, console,
          invocation, comment

\* The locals of main (argIndex is the loop variable i) and the arguments
\* that main has called generate with, if it has
mainVars == <<argv, argIndex, connectionString, filename, filetype, console,
              invocation>>

\* The state of generate other than its position and its parameter fileType;
\* comment is the local of the enum loop of the older generate
\* (src/src/main.ts), which the current generate does not have
generateLocals == <<db, columns, enums, schemaString, schema,
                    longestColumnName, longestColumnType, longestColumnDefault,
                    file, thrown, released, poolEnded, doneLogged, comment>>

vars == <<pc, db, fileType, columns, enums, schemaString, schema,
          longestColumnName, longestColumnType, longestColumnDefault,
          file, thrown, released, poolEnded, doneLogged,
          argv, argIndex, connectionString, filename, filetype, console,
          invocation, comment>>

(***************************************************************************)
(* Program constants                                                       *)
(***************************************************************************)
TAB_LENGTH == 2
COLUMN_PADDING == 2
COMMENT_MAX_PRINT_WIDTH == 80
ENUM_DATA_TYPE == <<"U","S","E","R","-","D","E","F","I","N","E","D">>
MODEL_TYPE_NAMES == [TABLE |-> <<"t","a","b","l","e">>, ENUM |-> <<"e","n","u","m">>]
KW_DEFAULT == <<"D","E","F","A","U","L","T">>
KW_REFERENCES == <<"R","E","F","E","R","E","N","C","E","S">>
KW_ON_DELETE == <<"O","N"," ","D","E","L","E","T","E">>
KW_ON_UPDATE == <<"O","N"," ","U","P","D","A","T","E">>
NO_ACTION == <<"N","O"," ","A","C","T","I","O","N">>

\* The value of a column that the query returned as SQL NULL.
Null == <<"null">>

\* JavaScript truthiness of a Nullable<string>: null and "" are falsy.
Truthy(v) == v # Null /\ v # <<>>

(***************************************************************************)
(* String primitives                                                       *)
(***************************************************************************)
Range(s) == {s[i] : i \in DOMAIN s}

Spaces(n) == [i \in 1..n |-> " "]

\* The printable ASCII characters in code-unit order, 32 (space) to 126.
Ascii ==
    <<" ","!","\"","#","$","%","&","'","(",")","*","+",",","-",".","/",
      "0","1","2","3","4","5","6","7","8","9",":",";","<","=",">","?",
      "@","A","B","C","D","E","F","G","H","I","J","K","L","M","N","O",
      "P","Q","R","S","T","U","V","W","X","Y","Z","[","\\","]","^","_",
      "grave","a","b","c","d","e","f","g","h","i","j","k","l","m","n","o",
      "p","q","r","s","t","u","v","w","x","y","z","{","|","}","~">>

Code(c) == 31 + (CHOOSE i \in DOMAIN Ascii : Ascii[i] = c)

\* a < b in the code-unit order that Array.prototype.sort() uses by default
StrLess(a, b) ==
    \E k \in 1..Len(b) :
        /\ \A j \in 1..(k - 1) : j <= Len(a) /\ a[j] = b[j]
        /\ (k > Len(a) \/ Code(a[k]) < Code(b[k]))

\* String.prototype.padEnd(targetLength, " ")
padEnd(s, targetLength) ==
    IF Len(s) >= targetLength THEN s ELSE s \o Spaces(targetLength - Len(s))

\* String.prototype.trim(), for strings whose only white space is " "
trim(s) ==
    IF \A i \in DOMAIN s : s[i] = " " THEN <<>>
    ELSE LET first == CHOOSE i \in DOMAIN s :
                        s[i] # " " /\ \A j \in 1..(i - 1) : s[j] = " "
             last  == CHOOSE i \in DOMAIN s :
                        s[i] # " " /\ \A j \in (i + 1)..Len(s) : s[j] = " "
         IN  SubSeq(s, first, last)

\* The k-th smallest element of a finite set of integers
Nth(P, k) == CHOOSE p \in P : Cardinality({q \in P : q < p}) = k - 1

\* String.prototype.split(sep) for a one-character separator
split(s, sep) ==
    LET P == {i \in DOMAIN s : s[i] = sep}
        n == Cardinality(P)
        pos(k) == IF k = 0 THEN 0 ELSE IF k = n + 1 THEN Len(s) + 1 ELSE Nth(P, k)
    IN  [k \in 1..(n + 1) |-> SubSeq(s, pos(k - 1) + 1, pos(k) - 1)]

\* Array.prototype.join(sep)
RECURSIVE join(_, _)
join(parts, sep) ==
    IF parts = <<>> THEN <<>>
    ELSE IF Len(parts) = 1 THEN parts[1]
    ELSE parts[1] \o sep \o join(Tail(parts), sep)

\* String.prototype.replace(pattern, replacement) for a one-character string
\* pattern: only the first occurrence is replaced.
replace(s, pattern, replacement) ==
    IF \A i \in DOMAIN s : s[i] # pattern THEN s
    ELSE LET i == CHOOSE i \in DOMAIN s :
                     s[i] = pattern /\ \A j \in 1..(i - 1) : s[j] # pattern
         IN  SubSeq(s, 1, i - 1) \o replacement \o SubSeq(s, i + 1, Len(s))

\* Array.prototype.sort() without a comparator, on distinct strings
sortStrings(keys) ==
    [k \in 1..Len(keys) |->
        CHOOSE x \in Range(keys) :
            Cardinality({y \in Range(keys) : StrLess(y, x)}) = k - 1]

\* The distinct elements of a sequence in order of first occurrence: the key
\* order of an object and the iteration order of a Set.  (Keys are table and
\* type names; none is a number or the name of a member of Object.prototype.)
insertionOrder(s) ==
    LET F == {i \in DOMAIN s : \A j \in 1..(i - 1) : s[j] # s[i]}
    IN  [k \in 1..Cardinality(F) |-> s[Nth(F, k)]]

(***************************************************************************)
(* src/src/utils.ts                                                        *)
(***************************************************************************)
\* attributes: a sequence of [key, value, boolean]
RECURSIVE stringifyAttributes(_)
stringifyAttributes(attributes) ==
    IF attributes = <<>> THEN <<>>
    ELSE LET a == attributes[1]
         IN  (IF a.boolean THEN <<" ">> \o a.key
              ELSE <<" ">> \o a.key \o <<"=","\"">> \o a.value \o <<"\"">>)
             \o stringifyAttributes(Tail(attributes))

wrapElement(content, tag, attributes) ==
    <<"<">> \o tag \o stringifyAttributes(attributes) \o <<">">> \o content
        \o <<"<","/">> \o tag \o <<">">>

Attr(key, value) == [key |-> key, value |-> value, boolean |-> FALSE]
BoolAttr(key) == [key |-> key, value |-> <<>>, boolean |-> TRUE]

\* tooltip = <<>> stands for the omitted (undefined) argument
wrapSpan(content, className, tooltip) ==
    wrapElement(content, <<"s","p","a","n">>,
        IF tooltip # <<>>
        THEN <<Attr(<<"c","l","a","s","s">>, className), Attr(<<"d","a","t","a","-","t","o","o","l","t","i","p">>, tooltip)>>
        ELSE <<Attr(<<"c","l","a","s","s">>, className)>>)

toggleThemeButton ==
    wrapElement(<<"T","o","g","g","l","e"," ","t","h","e","m","e">>, <<"b","u","t","t","o","n">>,
        <<Attr(<<"t","y","p","e">>, <<"b","u","t","t","o","n">>), BoolAttr(<<"d","a","t","a","-","t","h","e","m","e","-","t","o","g","g","l","e">>),
          Attr(<<"a","r","i","a","-","l","a","b","e","l">>, <<"C","h","a","n","g","e"," ","c","o","l","o","r"," ","t","h","e","m","e">>),
          Attr(<<"s","t","y","l","e">>, <<"p","o","s","i","t","i","o","n",":"," ","a","b","s","o","l","u","t","e",";">>)>>)

\* The style sheet and the script are fixed texts; they are shortened here.
getHTMLStyles == wrapElement(<<".","c","o","m","m","e","n","t"," ","{"," ","c","o","l","o","r",":"," ","v","a","r","(","-","-","c","o","l","o","r","-","c","o","m","m","e","n","t",")",";"," ","}">>, <<"s","t","y","l","e">>, <<>>)
getScript == wrapElement(<<"b","u","t","t","o","n",".","a","d","d","E","v","e","n","t","L","i","s","t","e","n","e","r","(","\"","c","l","i","c","k","\"",","," ","(",")"," ","=",">"," ","{","}",")",";">>, <<"s","c","r","i","p","t">>, <<>>)

\* splitString with the else branch starting the next line empty, so that
\* the word that did not fit is lost
splitStep_dropsWord(st, word, maxLength) ==
    IF Len(st.currentString \o word) <= maxLength
    THEN [st EXCEPT !.currentString = st.currentString \o <<" ">> \o word]
    ELSE [result |-> Append(st.result, trim(st.currentString)),
          currentString |-> <<>>]

\* The loop body of splitString: st = [result, currentString]
splitStep(st, word, maxLength) ==
    IF Len(st.currentString \o word) <= maxLength
    THEN [st EXCEPT !.currentString = st.currentString \o <<" ">> \o word]
    ELSE [result |-> Append(st.result, trim(st.currentString)),
          currentString |-> word]

RECURSIVE splitLoop(_, _, _, _)
splitLoop(st, words, i, maxLength) ==
    IF i > Len(words) THEN st
    ELSE splitLoop(splitStep(st, words[i], maxLength), words, i + 1, maxLength)

splitString(input, maxLength) ==
    LET st == splitLoop([result |-> <<>>, currentString |-> <<>>],
                        split(input, " "), 1, maxLength)
    IN  Append(st.result, trim(st.currentString))

(***************************************************************************)
(* src/unnamed/part_000 (main.ts): generate                                *)
(***************************************************************************)
TAB == Spaces(TAB_LENGTH)

\* "This file was generated on <date>."; the date is that of one run.
CREATED_ON_COMMENT == <<"T","h","i","s"," ","f","i","l","e"," ","w","a","s"," ","g","e","n","e","r","a","t","e","d"," ","o","n"," ","1","/","1","/","2","0","2","4"," ","a","t"," ","1","2",":","0","0"," ","A","M"," ","(","U","T","C",")",".">>

NoTooltip == <<>>

wrapSpanIfHTML(ft, content, className, tooltip) ==
    IF ft = "html" THEN wrapSpan(content, className, tooltip) ELSE content

formatComment(ft, text) ==
    LET lines == splitString(text, COMMENT_MAX_PRINT_WIDTH)
    IN  join([i \in DOMAIN lines |->
                 wrapSpanIfHTML(ft, lines[i], <<"c","o","m","m","e","n","t">>, NoTooltip)], <<"\n">>)

openCurlyBracket(ft) == wrapSpanIfHTML(ft, <<"{">>, <<"p","u","n","c","t","u","a","t","i","o","n">>, NoTooltip)
closeCurlyBracket(ft) == wrapSpanIfHTML(ft, <<"}">>, <<"p","u","n","c","t","u","a","t","i","o","n">>, NoTooltip)
openParens(ft) == wrapSpanIfHTML(ft, <<"(">>, <<"p","u","n","c","t","u","a","t","i","o","n">>, NoTooltip)
closeParens(ft) == wrapSpanIfHTML(ft, <<")">>, <<"p","u","n","c","t","u","a","t","i","o","n">>, NoTooltip)

\* enumsByName: the keys in insertion order, and the value stored last
enumsByNameKeys(enumRows) ==
    insertionOrder([i \in DOMAIN enumRows |-> enumRows[i].enum_name])

enumsByNameValues(enumRows, enumName) ==
    LET last == CHOOSE i \in DOMAIN enumRows :
                    /\ enumRows[i].enum_name = enumName
                    /\ \A j \in (i + 1)..Len(enumRows) :
                           enumRows[j].enum_name # enumName
    IN  enumRows[last].enum_values

\* enumTableReferences[udt_name] is defined iff some column has that type
hasTableReferences(cols, udtName) ==
    \E i \in DOMAIN cols :
        cols[i].data_type = ENUM_DATA_TYPE /\ cols[i].udt_name = udtName

\* The table of every column that has the type, without the Set: a table
\* is listed once for each of its columns
enumTableReferences_perColumn(cols, udtName) ==
    LET using == SelectSeq(cols, LAMBDA c :
                     c.data_type = ENUM_DATA_TYPE /\ c.udt_name = udtName)
    IN  [i \in DOMAIN using |-> using[i].table_name]

\* Array.from(enumTableReferences[udt_name]): a Set iterates in insertion order
enumTableReferences(cols, udtName) ==
    LET using == SelectSeq(cols, LAMBDA c :
                     c.data_type = ENUM_DATA_TYPE /\ c.udt_name = udtName)
    IN  insertionOrder([i \in DOMAIN using |-> using[i].table_name])

referenceComment(references) ==
    <<"-","-"," ","R","e","f","e","r","e","n","c","e","d"," ","i","n"," ">> \o join(references, <<","," ">>) \o <<".">>

RECURSIVE enumValueLines(_, _)
enumValueLines(ft, values) ==
    IF values = <<>> THEN <<>>
    ELSE TAB \o wrapSpanIfHTML(ft, values[1], <<"c","o","l","u","m","n","N","a","m","e">>, NoTooltip) \o <<"\n">>
         \o enumValueLines(ft, Tail(values))

\* One iteration of sortedEnumNames.forEach, when the reference set exists
enumBlock(ft, cols, enumRows, enumName) ==
    LET formattedComment ==
            formatComment(ft, referenceComment(enumTableReferences(cols, enumName)))
        tableType == wrapSpanIfHTML(ft, MODEL_TYPE_NAMES.ENUM, <<"t","a","b","l","e","T","y","p","e">>, NoTooltip)
        formattedEnumName == wrapSpanIfHTML(ft, enumName, <<"t","a","b","l","e","N","a","m","e">>, NoTooltip)
    IN  formattedComment \o <<"\n">> \o tableType \o <<" ">> \o formattedEnumName \o <<" ">>
            \o openCurlyBracket(ft) \o <<"\n">>
            \o enumValueLines(ft, enumsByNameValues(enumRows, enumName))
            \o closeCurlyBracket(ft) \o <<"\n","\n">>

\* Array.from(undefined) throws a TypeError
enumThrows(cols, enumName) == ~hasTableReferences(cols, enumName)

\* sortedEnumNames.forEach(...): [thrown, schemaString]
RECURSIVE enumsLoop(_, _, _, _, _, _)
enumsLoop(ft, cols, enumRows, names, i, acc) ==
    IF i > Len(names) THEN [thrown |-> FALSE, schemaString |-> acc]
    ELSE IF enumThrows(cols, names[i]) THEN [thrown |-> TRUE, schemaString |-> acc]
    ELSE enumsLoop(ft, cols, enumRows, names, i + 1,
                   acc \o enumBlock(ft, cols, enumRows, names[i]))

\* Object.keys(enumsByName) without the sort: the enums in insertion order
renderEnums_unsorted(ft, cols, enumRows) ==
    enumsLoop(ft, cols, enumRows, enumsByNameKeys(enumRows), 1, <<>>)

renderEnums(ft, cols, enumRows) ==
    enumsLoop(ft, cols, enumRows, sortStrings(enumsByNameKeys(enumRows)), 1, <<>>)

\* The comparator with its two results exchanged: nullable columns first
nullableCompare_swapped(a, b) ==
    IF a.is_nullable = "YES" /\ b.is_nullable = "NO" THEN -1
    ELSE IF b.is_nullable = "YES" /\ a.is_nullable = "NO" THEN 1
    ELSE 0

\* The comparator of columns.sort
nullableCompare(a, b) ==
    IF a.is_nullable = "YES" /\ b.is_nullable = "NO" THEN 1
    ELSE IF b.is_nullable = "YES" /\ a.is_nullable = "NO" THEN -1
    ELSE 0

\* Array.prototype.sort(comparator) is stable: an element is preceded by the
\* elements that compare below it and by the equal ones that stood before it.
sortColumns(cols) ==
    LET rank(i) == Cardinality({j \in DOMAIN cols :
                        \/ nullableCompare(cols[j], cols[i]) < 0
                        \/ nullableCompare(cols[j], cols[i]) = 0 /\ j < i})
    IN  [k \in DOMAIN cols |-> cols[CHOOSE i \in DOMAIN cols : rank(i) = k - 1]]

displayedType(column) ==
    IF column.data_type = ENUM_DATA_TYPE THEN column.udt_name ELSE column.data_type

\* schema: the tables in insertion order, each with its columns in the order
\* of the (sorted) column rows; every column gets the field type
buildSchema(sortedCols) ==
    LET names == insertionOrder([i \in DOMAIN sortedCols |-> sortedCols[i].table_name])
        typed == [i \in DOMAIN sortedCols |->
                    [column |-> sortedCols[i], type |-> displayedType(sortedCols[i])]]
    IN  [k \in DOMAIN names |->
            [table_name |-> names[k],
             columns |-> SelectSeq(typed, LAMBDA c : c.column.table_name = names[k])]]

\* Object.values(schema), all tables' columns one after the other
RECURSIVE allColumns(_)
allColumns(sch) ==
    IF sch = <<>> THEN <<>> ELSE sch[1].columns \o allColumns(Tail(sch))

\* The length without the place for the question mark
columnNameLength_noMarker(c) == Len(c.column.column_name)

columnNameLength(c) ==
    IF c.column.is_nullable = "YES" THEN Len(c.column.column_name) + 1
    ELSE Len(c.column.column_name)

\* The body of the width loop: w = [name, type, default]
widthStep(w, c) ==
    [name |-> IF columnNameLength(c) > w.name THEN columnNameLength(c) ELSE w.name,
     type |-> IF Len(c.type) > w.type THEN Len(c.type) ELSE w.type,
     default |-> IF Truthy(c.column.column_default)
                    /\ Len(c.column.column_default) > w.default
                 THEN Len(c.column.column_default) + Len(KW_DEFAULT)
                 ELSE w.default]

RECURSIVE widthLoop(_, _, _)
widthLoop(w, cs, i) ==
    IF i > Len(cs) THEN w ELSE widthLoop(widthStep(w, cs[i]), cs, i + 1)

computeWidths(sch) ==
    widthLoop([name |-> 0, type |-> 0, default |-> 0], allColumns(sch), 1)

\* The condition with || in the place of &&
hasReferencesClause_either(col) ==
    Truthy(col.foreign_key_table) \/ Truthy(col.foreign_key_column)

\* The REFERENCES clause is added iff both fields are truthy
hasReferencesClause(col) ==
    Truthy(col.foreign_key_table) /\ Truthy(col.foreign_key_column)

\* The condition without the comparison with "NO ACTION"
hasRuleClause_anyRule(rule) == Truthy(rule)

\* An ON DELETE / ON UPDATE clause is added iff the rule is truthy and is
\* not "NO ACTION"
hasRuleClause(rule) == Truthy(rule) /\ rule # NO_ACTION

defaultClause(ft, col) ==
    wrapSpanIfHTML(ft, KW_DEFAULT, <<"c","o","l","u","m","n","P","r","o","p","e","r","t","y">>, NoTooltip) \o <<" ">>
        \o wrapSpanIfHTML(ft, col.column_default, <<"t","e","x","t">>, NoTooltip) \o <<" ">>

referencesClause(ft, col) ==
    wrapSpanIfHTML(ft, KW_REFERENCES, <<"c","o","l","u","m","n","P","r","o","p","e","r","t","y">>, NoTooltip) \o <<" ">>
        \o wrapSpanIfHTML(ft, col.foreign_key_table, <<"t","a","b","l","e","N","a","m","e">>, NoTooltip)
        \o openParens(ft)
        \o wrapSpanIfHTML(ft, col.foreign_key_column, <<"t","e","x","t">>, NoTooltip)
        \o closeParens(ft) \o <<" ">>

ruleClause(ft, keyword, rule) ==
    wrapSpanIfHTML(ft, keyword, <<"c","o","l","u","m","n","P","r","o","p","e","r","t","y">>, NoTooltip) \o <<" ">>
        \o wrapSpanIfHTML(ft, rule, <<"t","e","x","t">>, NoTooltip) \o <<" ">>

formattedColumnName(ft, col, longestName) ==
    LET nullable == col.is_nullable = "YES"
        formattedColumnNullable ==
            IF nullable
            THEN wrapSpanIfHTML(ft, <<"?">>, <<"c","o","l","u","m","n","P","r","o","p","e","r","t","y"," ","b","o","l","d">>,
                                col.column_name \o <<" ","i","s"," ","N","U","L","L","A","B","L","E",".">>)
            ELSE <<>>
        padded == padEnd(col.column_name \o (IF nullable THEN <<"?">> ELSE <<>>),
                         longestName + COLUMN_PADDING)
    IN  replace(wrapSpanIfHTML(ft, padded, <<"c","o","l","u","m","n","N","a","m","e">>, NoTooltip),
                "?", formattedColumnNullable)

\* The type padded after it has been wrapped: the markup counts as width
formattedColumnType_padsMarkup(ft, type, longestType) ==
    padEnd(wrapSpanIfHTML(ft, type, <<"c","o","l","u","m","n","T","y","p","e">>, NoTooltip),
           longestType + COLUMN_PADDING)

formattedColumnType(ft, type, longestType) ==
    wrapSpanIfHTML(ft, padEnd(type, longestType + COLUMN_PADDING),
                   <<"c","o","l","u","m","n","T","y","p","e">>, NoTooltip)

\* columnLine with the REFERENCES clause appended before the DEFAULT clause
columnLine_referencesFirst(ft, c, longestName, longestType) ==
    LET col == c.column
    IN  formattedColumnName(ft, col, longestName)
            \o formattedColumnType(ft, c.type, longestType)
            \o (IF hasReferencesClause(col) THEN referencesClause(ft, col) ELSE <<>>)
            \o (IF Truthy(col.column_default) THEN defaultClause(ft, col) ELSE <<>>)
            \o (IF hasRuleClause(col.foreign_key_delete_rule)
                THEN ruleClause(ft, KW_ON_DELETE, col.foreign_key_delete_rule)
                ELSE <<>>)
            \o (IF hasRuleClause(col.foreign_key_update_rule)
                THEN ruleClause(ft, KW_ON_UPDATE, col.foreign_key_update_rule)
                ELSE <<>>)

\* columnLine, for one entry c = [column, type] of schema[table]
columnLine(ft, c, longestName, longestType) ==
    LET col == c.column
    IN  formattedColumnName(ft, col, longestName)
            \o formattedColumnType(ft, c.type, longestType)
            \o (IF Truthy(col.column_default) THEN defaultClause(ft, col) ELSE <<>>)
            \o (IF hasReferencesClause(col) THEN referencesClause(ft, col) ELSE <<>>)
            \o (IF hasRuleClause(col.foreign_key_delete_rule)
                THEN ruleClause(ft, KW_ON_DELETE, col.foreign_key_delete_rule)
                ELSE <<>>)
            \o (IF hasRuleClause(col.foreign_key_update_rule)
                THEN ruleClause(ft, KW_ON_UPDATE, col.foreign_key_update_rule)
                ELSE <<>>)

RECURSIVE columnLines(_, _, _, _)
columnLines(ft, cs, longestName, longestType) ==
    IF cs = <<>> THEN <<>>
    ELSE TAB \o columnLine(ft, cs[1], longestName, longestType) \o <<"\n">>
         \o columnLines(ft, Tail(cs), longestName, longestType)

schemaColumns(sch, table) ==
    (CHOOSE e \in Range(sch) : e.table_name = table).columns

\* Object.keys(schema) without the sort: the tables in insertion order
sortedTables_unsorted(sch) == [k \in DOMAIN sch |-> sch[k].table_name]

\* Object.keys(schema).sort()
sortedTables(sch) == sortStrings([k \in DOMAIN sch |-> sch[k].table_name])

\* One iteration of sortedTables.forEach
tableBlock(ft, sch, table, longestName, longestType) ==
    wrapSpanIfHTML(ft, MODEL_TYPE_NAMES.TABLE, <<"t","a","b","l","e","T","y","p","e">>, NoTooltip) \o <<" ">>
        \o wrapSpanIfHTML(ft, table, <<"t","a","b","l","e","N","a","m","e">>, NoTooltip) \o <<" ">>
        \o openCurlyBracket(ft) \o <<"\n">>
        \o columnLines(ft, schemaColumns(sch, table), longestName, longestType)
        \o closeCurlyBracket(ft) \o <<"\n","\n">>

RECURSIVE tablesLoop(_, _, _, _, _)
tablesLoop(ft, sch, tables, longestName, longestType) ==
    IF tables = <<>> THEN <<>>
    ELSE tableBlock(ft, sch, tables[1], longestName, longestType)
         \o tablesLoop(ft, sch, Tail(tables), longestName, longestType)

renderTables(ft, sch, longestName, longestType) ==
    tablesLoop(ft, sch, sortedTables(sch), longestName, longestType)

formattedCreatedOnComment(ft) ==
    wrapSpanIfHTML(ft, <<"-","-"," ">> \o CREATED_ON_COMMENT, <<"c","o","m","m","e","n","t">>, NoTooltip)

prettyPostgresLink ==
    wrapElement(<<"p","r","e","t","t","y","-","p","o","s","t","g","r","e","s">>, <<"a">>,
        <<Attr(<<"h","r","e","f">>, <<"h","t","t","p","s",":","/","/","g","i","t","h","u","b",".","c","o","m","/","a","t","u","l","-","j","a","l","a","n","/","p","r","e","t","t","y","-","p","o","s","t","g","r","e","s">>),
          Attr(<<"c","l","a","s","s">>, <<"l","i","n","k">>), Attr(<<"t","a","r","g","e","t">>, <<"_","b","l","a","n","k">>)>>)

formattedAttributionComment(ft) ==
    wrapSpanIfHTML(ft, <<"-","-"," ","M","a","d","e"," ","w","i","t","h"," ">> \o prettyPostgresLink \o <<".">>,
                   <<"c","o","m","m","e","n","t">>, NoTooltip)

\* The content of the <pre> element before the toggle button
htmlPreText(ft, body) ==
    formattedCreatedOnComment(ft) \o <<"\n">> \o formattedAttributionComment(ft)
        \o <<"\n","\n">> \o body

htmlString(ft, body) ==
    LET htmlPre == wrapElement(htmlPreText(ft, body) \o toggleThemeButton,
                               <<"p","r","e">>, <<Attr(<<"c","l","a","s","s">>, <<"p","r","e">>)>>)
        htmlHead == wrapElement(getHTMLStyles \o getScript, <<"h","e","a","d">>, <<>>)
        htmlBody == wrapElement(htmlPre, <<"b","o","d","y">>, <<>>)
        htmlContent == wrapElement(htmlHead \o htmlBody, <<"h","t","m","l">>,
                                   <<Attr(<<"d","a","t","a","-","t","h","e","m","e">>, <<"l","i","g","h","t">>)>>)
        htmlHeader == <<"<","!","-","-"," ","T","h","i","s"," ","f","i","l","e"," ","i","s"," ","b","e","s","t"," ","v","i","e","w","e","d"," ","i","n"," ","a"," ","b","r","o","w","s","e","r","!"," ","-","-",">","\n","<","!","-","-"," ">>
            \o CREATED_ON_COMMENT
            \o <<" ","-","-",">","\n","<","!","-","-"," ","M","a","d","e"," ","w","i","t","h"," ","p","r","e","t","t","y","-","p","o","s","t","g","r","e","s",":"," ","h","t","t","p","s",":","/","/","g","i","t","h","u","b",".","c","o","m","/","a","t","u","l","-","j","a","l","a","n","/","p","r","e","t","t","y","-","p","o","s","t","g","r","e","s"," ","-","-",">","\n","\n","<","!","D","O","C","T","Y","P","E"," ","h","t","m","l",">","\n">>
    IN  htmlHeader \o htmlContent

txtString(ft, body) ==
    formattedCreatedOnComment(ft) \o <<"\n">>
        \o <<"-","-"," ","M","a","d","e"," ","w","i","t","h"," ","p","r","e","t","t","y","-","p","o","s","t","g","r","e","s",":"," ","h","t","t","p","s",":","/","/","g","i","t","h","u","b",".","c","o","m","/","a","t","u","l","-","j","a","l","a","n","/","p","r","e","t","t","y","-","p","o","s","t","g","r","e","s">>
        \o <<"\n","\n">>
        \o <<"-","-"," ","N","o","t","e",":"," ","A"," ","'","?","'"," ","a","f","t","e","r"," ","a"," ","c","o","l","u","m","n"," ","n","a","m","e"," ","i","n","d","i","c","a","t","e","s"," ","t","h","a","t"," ","t","h","e"," ","c","o","l","u","m","n"," ","i","s"," ","n","u","l","l","a","b","l","e",".">>
        \o <<"\n","\n">> \o body

\* The second argument of fs.writeFileSync
fileContent(ft, body) ==
    IF ft = "html" THEN htmlString(ft, body) ELSE txtString(ft, body)

\* The synchronous part of generate between the two queries and the write,
\* as a function of the rows: the text that schemaString holds at the write
renderBody(ft, cols, enumRows) ==
    LET sch == buildSchema(sortColumns(cols))
        w == computeWidths(sch)
    IN  renderEnums(ft, cols, enumRows).schemaString
            \o renderTables(ft, sch, w.name, w.type)

(***************************************************************************)
(* The databases the run is checked on: what columnsQuery and enumsQuery   *)
(* return (src/src/queries.ts).  constraint_type is not read by generate.  *)
(***************************************************************************)
MaxRows == 3
MaxRefs == 3
LongName == 39
SpacedTail == 30

Column(t, n, dt, udt, def, nullable, fkt, fkc, del, upd) ==
    [table_name |-> t, column_name |-> n, data_type |-> dt, udt_name |-> udt,
     column_default |-> def, is_nullable |-> nullable,
     foreign_key_table |-> fkt, foreign_key_column |-> fkc,
     foreign_key_delete_rule |-> del, foreign_key_update_rule |-> upd]

Plain(t, n, dt, udt, def, nullable) ==
    Column(t, n, dt, udt, def, nullable, Null, Null, Null, Null)

Enum(name, values) == [enum_name |-> name, enum_values |-> values]

StatusEnum == Enum(<<"s","t","a","t","u","s">>, <<<<"o","n">>, <<"o","f","f">>>>)
MoodEnum == Enum(<<"m","o","o","d">>, <<<<"o","k">>>>)

\* Two tables, given out of order; status is used twice by table b and once
\* by table a, level has no enum row.
PoolRows ==
    {Plain(<<"b">>, <<"i","d">>, <<"i","n","t","e","g","e","r">>, <<"i","n","t","4">>, <<"0">>, "NO"),
     Plain(<<"b">>, <<"s","t">>, ENUM_DATA_TYPE, <<"s","t","a","t","u","s">>, Null, "YES"),
     Plain(<<"b">>, <<"s","2">>, ENUM_DATA_TYPE, <<"s","t","a","t","u","s">>, Null, "YES"),
     Plain(<<"a">>, <<"s","t","a","t","e">>, ENUM_DATA_TYPE, <<"s","t","a","t","u","s">>, <<"1","0">>, "NO"),
     Plain(<<"a">>, <<"m">>, ENUM_DATA_TYPE, <<"m","o","o","d">>, Null, "NO"),
     Plain(<<"a">>, <<"l","v">>, ENUM_DATA_TYPE, <<"l","e","v","e","l">>, Null, "YES")}

\* Single rows over every combination of the foreign-key fields
ForeignKeyRows ==
    {Column(<<"t">>, <<"i","d">>, <<"i","n","t","e","g","e","r">>, <<"i","n","t","4">>, def, "NO", fkt, fkc, del, upd) :
        def \in {Null, <<"0">>}, fkt \in {Null, <<"a">>}, fkc \in {Null, <<"i","d">>},
        del \in {Null, NO_ACTION, <<"C","A","S","C","A","D","E">>},
        upd \in {Null, NO_ACTION, <<"S","E","T"," ","N","U","L","L">>}}

\* Single rows whose name has a question mark of its own
MarkedRows ==
    {Plain(<<"t">>, n, <<"i","n","t","e","g","e","r">>, <<"i","n","t","4">>, def, nullable) :
        n \in {<<"q","?">>, <<"i","d">>}, def \in {Null, <<"0">>}, nullable \in {"YES", "NO"}}

\* Two rows of one table with different column names
MarkedPairs ==
    {p \in MarkedRows \X MarkedRows : p[1].column_name # p[2].column_name}

\* Tables with long names that all have a status column, so that the
\* reference comment of status has to be wrapped; one name has two spaces.
WrapNames ==
    {[i \in 1..LongName |-> "a"], [i \in 1..LongName |-> "b"],
     [i \in 1..LongName |-> "c"], <<"d","d">>,
     <<"e"," "," ">> \o [i \in 1..SpacedTail |-> "e"]}

WrapRow(t) == Plain(t, <<"s","t">>, ENUM_DATA_TYPE, <<"s","t","a","t","u","s">>, Null, "NO")

\* The sequences of at most n distinct elements of S
SeqsDistinct(S, n) ==
    UNION {{s \in [1..k -> S] : \A i, j \in 1..k : i # j => s[i] # s[j]} :
           k \in 0..n}

Database(cols, ens) == [columns |-> cols, enums |-> ens]

Databases ==
    {Database(cols, ens) :
        cols \in SeqsDistinct(PoolRows, MaxRows),
        ens \in {<<>>, <<StatusEnum>>, <<StatusEnum, MoodEnum>>}}
    \cup {Database(<<r>>, <<>>) : r \in ForeignKeyRows \cup MarkedRows}
    \cup {Database(p, <<>>) : p \in MarkedPairs}
    \cup {Database([i \in DOMAIN names |-> WrapRow(names[i])], <<StatusEnum>>) :
            names \in SeqsDistinct(WrapNames, MaxRefs) \ {<<>>}}

(***************************************************************************)
(* main(): the constants of the command line.  An argument is a string; a  *)
(* local that is null or a string is the empty sequence or <<string>>.     *)
(***************************************************************************)
DEFAULT_FILE_TYPE == "html"
DEFAULT_FILE_NAME == "pretty-postgres-schema"

GENERATE_COMMAND_OPTIONS ==
    [CONNECTION_STRING |-> <<"-connection-string", "-cs">>,
     FILENAME |-> <<"-filename", "-fn">>,
     FILETYPE |-> <<"-filetype", "-ft">>]

FILETYPES == [HTML |-> "html", TXT |-> "txt"]

\* null, and a value that is a string
NullArg == <<>>
Given(value) == <<value>>

\* value || fallback
OrElse(local, fallback) ==
    IF local # NullArg /\ local[1] # "" THEN local[1] ELSE fallback

\* The messages of console.error and console.log
ERROR_COMMAND == "Error: command not recognized."
ERROR_FILE_TYPE == "Error: not a valid file type."
ERROR_CONNECTION_STRING == "Error: you must provide a connection string."
LOG_WRITING == "Writing schema to the default file name."
LOG_FILENAME_HINT == "You can optionally specify a filename."

\* fileType and invocation while generate has not been called
NotInvoked == <<>>
NoFileType == "none"

(***************************************************************************)
(* generate(connectionString, filename, fileType)                          *)
(***************************************************************************)
NoFile == <<"no file">>

\* thrown: the exception that is propagating, if any
NoError == "none"

\* generate as main has called it with the arguments -cs db -ft <fileType>
Init ==
    /\ pc = "connect"
    /\ db \in Databases
    /\ fileType \in {"txt", "html"}
    /\ columns = <<>>
    /\ enums = <<>>
    /\ schemaString = <<>>
    /\ schema = <<>>
    /\ longestColumnName = 0
    /\ longestColumnType = 0
    /\ longestColumnDefault = 0
    /\ file = NoFile
    /\ thrown = NoError
    /\ released = 0
    /\ poolEnded = FALSE
    /\ doneLogged = FALSE
    /\ comment = <<>>
    /\ argv = <<"generate", "-cs", "db", "-ft", fileType>>
    /\ argIndex = 4
    /\ connectionString = Given("db")
    /\ filename = NullArg
    /\ filetype = Given(fileType)
    /\ console = <<LOG_WRITING, LOG_FILENAME_HINT>>
    /\ invocation = <<[connectionString |-> "db",
                       filename |-> DEFAULT_FILE_NAME,
                       fileType |-> fileType]>>

\* const client = await pool.connect()
Connect ==
    /\ pc = "connect"
    /\ pc' = "columnsQuery"
    /\ UNCHANGED mainVars
    /\ UNCHANGED comment
    /\ UNCHANGED <<db, fileType, columns, enums, schemaString, schema,
                   longestColumnName, longestColumnType, longestColumnDefault,
                   file, thrown, released, poolEnded, doneLogged>>

\* pool.connect() rejects: generate rejects before the try statement
ConnectFails ==
    /\ pc = "connect"
    /\ pc' = "rejected"
    /\ thrown' = "connect error"
    /\ UNCHANGED mainVars
    /\ UNCHANGED comment
    /\ UNCHANGED <<db, fileType, columns, enums, schemaString, schema,
                   longestColumnName, longestColumnType, longestColumnDefault,
                   file, released, poolEnded, doneLogged>>

\* The exception is recorded and the try block goes on to the write
Throw_swallowed(error) ==
    /\ thrown' = error
    /\ pc' = "write"

\* An exception inside the try block: control goes to the finally block
Throw(error) ==
    /\ thrown' = error
    /\ pc' = "finally"

\* const columns = (await columnsQuery(client)).rows
ColumnsQuery ==
    /\ pc = "columnsQuery"
    /\ columns' = db.columns
    /\ pc' = "enumsQuery"
    /\ UNCHANGED mainVars
    /\ UNCHANGED comment
    /\ UNCHANGED <<db, fileType, enums, schemaString, schema,
                   longestColumnName, longestColumnType, longestColumnDefault,
                   file, thrown, released, poolEnded, doneLogged>>

ColumnsQueryFails ==
    /\ pc = "columnsQuery"
    /\ Throw("query error")
    /\ UNCHANGED mainVars
    /\ UNCHANGED comment
    /\ UNCHANGED <<db, fileType, columns, enums, schemaString, schema,
                   longestColumnName, longestColumnType, longestColumnDefault,
                   file, released, poolEnded, doneLogged>>

\* const enums = (await enumsQuery(client)).rows
EnumsQuery ==
    /\ pc = "enumsQuery"
    /\ enums' = db.enums
    /\ pc' = "renderEnums"
    /\ UNCHANGED mainVars
    /\ UNCHANGED comment
    /\ UNCHANGED <<db, fileType, columns, schemaString, schema,
                   longestColumnName, longestColumnType, longestColumnDefault,
                   file, thrown, released, poolEnded, doneLogged>>

EnumsQueryFails ==
    /\ pc = "enumsQuery"
    /\ Throw("query error")
    /\ UNCHANGED mainVars
    /\ UNCHANGED comment
    /\ UNCHANGED <<db, fileType, columns, enums, schemaString, schema,
                   longestColumnName, longestColumnType, longestColumnDefault,
                   file, released, poolEnded, doneLogged>>

\* enumsByName, enumTableReferences and the enum blocks
RenderEnums ==
    /\ pc = "renderEnums"
    /\ LET r == renderEnums(fileType, columns, enums)
       IN  /\ ~r.thrown
           /\ schemaString' = r.schemaString
    /\ pc' = "layout"
    /\ UNCHANGED mainVars
    /\ UNCHANGED comment
    /\ UNCHANGED <<db, fileType, columns, enums, schema,
                   longestColumnName, longestColumnType, longestColumnDefault,
                   file, thrown, released, poolEnded, doneLogged>>

\* Array.from(enumTableReferences[enumName]) throws for some enum
RenderEnumsThrows ==
    /\ pc = "renderEnums"
    /\ renderEnums(fileType, columns, enums).thrown
    /\ Throw("TypeError")
    /\ UNCHANGED mainVars
    /\ UNCHANGED comment
    /\ UNCHANGED <<db, fileType, columns, enums, schemaString, schema,
                   longestColumnName, longestColumnType, longestColumnDefault,
                   file, released, poolEnded, doneLogged>>

\* columns.sort(...).forEach(...) builds schema; then the width loop
Layout ==
    /\ pc = "layout"
    /\ columns' = sortColumns(columns)
    /\ schema' = buildSchema(columns')
    /\ LET w == computeWidths(schema')
       IN  /\ longestColumnName' = w.name
           /\ longestColumnType' = w.type
           /\ longestColumnDefault' = w.default
    /\ pc' = "renderTables"
    /\ UNCHANGED mainVars
    /\ UNCHANGED comment
    /\ UNCHANGED <<db, fileType, enums, schemaString,
                   file, thrown, released, poolEnded, doneLogged>>

\* sortedTables.forEach(...) appends the table blocks
RenderTables ==
    /\ pc = "renderTables"
    /\ schemaString' = schemaString \o
           renderTables(fileType, schema, longestColumnName, longestColumnType)
    /\ pc' = "write"
    /\ UNCHANGED mainVars
    /\ UNCHANGED comment
    /\ UNCHANGED <<db, fileType, columns, enums, schema,
                   longestColumnName, longestColumnType, longestColumnDefault,
                   file, thrown, released, poolEnded, doneLogged>>

\* fs.writeFileSync(`${filename}.${fileType}`, ...)
WriteFile ==
    /\ pc = "write"
    /\ file' = fileContent(fileType, schemaString)
    /\ pc' = "finally"
    /\ UNCHANGED mainVars
    /\ UNCHANGED comment
    /\ UNCHANGED <<db, fileType, columns, enums, schemaString, schema,
                   longestColumnName, longestColumnType, longestColumnDefault,
                   thrown, released, poolEnded, doneLogged>>

\* fs.writeFileSync throws (the file cannot be created)
WriteFileFails ==
    /\ pc = "write"
    /\ Throw("write error")
    /\ UNCHANGED mainVars
    /\ UNCHANGED comment
    /\ UNCHANGED <<db, fileType, columns, enums, schemaString, schema,
                   longestColumnName, longestColumnType, longestColumnDefault,
                   file, released, poolEnded, doneLogged>>

\* The finally block without client.release()
Release_notCalled ==
    /\ pc = "finally"
    /\ pc' = "poolEnd"
    /\ UNCHANGED mainVars
    /\ UNCHANGED comment
    /\ UNCHANGED <<db, fileType, columns, enums, schemaString, schema,
                   longestColumnName, longestColumnType, longestColumnDefault,
                   file, thrown, released, poolEnded, doneLogged>>

\* finally { client.release(); await pool.end(); ...
Release ==
    /\ pc = "finally"
    /\ released' = released + 1
    /\ pc' = "poolEnd"
    /\ UNCHANGED mainVars
    /\ UNCHANGED comment
    /\ UNCHANGED <<db, fileType, columns, enums, schemaString, schema,
                   longestColumnName, longestColumnType, longestColumnDefault,
                   file, thrown, poolEnded, doneLogged>>

\* ... pool.end() has resolved; console.log("\nDone!") }
PoolEnd ==
    /\ pc = "poolEnd"
    /\ poolEnded' = TRUE
    /\ doneLogged' = TRUE
    /\ pc' = IF thrown # NoError THEN "rejected" ELSE "done"
    /\ UNCHANGED mainVars
    /\ UNCHANGED comment
    /\ UNCHANGED <<db, fileType, columns, enums, schemaString, schema,
                   longestColumnName, longestColumnType, longestColumnDefault,
                   file, thrown, released>>

Next ==
    \/ Connect
    \/ ConnectFails
    \/ ColumnsQuery
    \/ ColumnsQueryFails
    \/ EnumsQuery
    \/ EnumsQueryFails
    \/ RenderEnums
    \/ RenderEnumsThrows
    \/ Layout
    \/ RenderTables
    \/ WriteFile
    \/ WriteFileFails
    \/ Release
    \/ PoolEnd

Spec == Init /\ [][Next]_vars

\* The finally block has no await before client.release(), and the call of
\* pool.end() follows it at once: once the block is entered, its steps are taken
FinallySpec == Spec /\ WF_vars(Release) /\ WF_vars(PoolEnd)

TypeOK ==
    /\ pc \in {"oldEnum", "whileTest", "whileBody", "afterWhile", "oldValues",
               "oldThrown", "main", "loop", "returned",
               "connect", "columnsQuery", "enumsQuery", "renderEnums", "layout",
               "renderTables", "write", "finally", "poolEnd", "done", "rejected"}
    /\ fileType \in {"txt", "html", NoFileType}
    /\ thrown \in {NoError, "connect error", "query error", "TypeError",
                  "write error", "RangeError"}
    /\ released \in 0..1

(***************************************************************************)
(* main(): process.argv from index 2 on is argv; the command and the       *)
(* argument loop, which ends with an error message or with the call of     *)
(* generate.                                                               *)
(***************************************************************************)
MaxArgs == 4

ArgTokens ==
    {"-connection-string", "-cs", "-fn", "-filetype", "-ft",
     "html", "txt", "pdf", "db"}

ArgVectors ==
    {<<>>, <<"help">>}
    \cup {<<"generate">> \o a :
             a \in UNION {[1..n -> ArgTokens] : n \in 0..MaxArgs}}

\* A database on which generate writes a file, and one on which it throws
MainDatabases ==
    {Database(<<Plain(<<"b">>, <<"s","t">>, ENUM_DATA_TYPE, <<"s","t","a","t","u","s">>, Null, "YES")>>,
              <<StatusEnum>>),
     Database(<<>>, <<StatusEnum>>)}

MainInit ==
    /\ pc = "main"
    /\ db \in MainDatabases
    /\ argv \in ArgVectors
    /\ argIndex = 0
    /\ connectionString = NullArg
    /\ filename = NullArg
    /\ filetype = NullArg
    /\ console = <<>>
    /\ invocation = NotInvoked
    /\ fileType = NoFileType
    /\ columns = <<>>
    /\ enums = <<>>
    /\ schemaString = <<>>
    /\ schema = <<>>
    /\ longestColumnName = 0
    /\ longestColumnType = 0
    /\ longestColumnDefault = 0
    /\ file = NoFile
    /\ thrown = NoError
    /\ released = 0
    /\ poolEnded = FALSE
    /\ doneLogged = FALSE
    /\ comment = <<>>

\* process.argv[2], which is undefined when there is no argument
command == IF argv = <<>> THEN "undefined" ELSE argv[1]

\* process.argv.slice(3)
additionalArgs == Tail(argv)

\* additionalArgs[i] and additionalArgs[i + 1]
arg == additionalArgs[argIndex + 1]
nextArg == additionalArgs[argIndex + 2]

\* if (command !== "generate") { console.error(...); return; }
CommandNotRecognized ==
    /\ pc = "main"
    /\ command # "generate"
    /\ console' = Append(console, ERROR_COMMAND)
    /\ pc' = "returned"
    /\ UNCHANGED <<argv, argIndex, connectionString, filename, filetype,
                   invocation, fileType>>
    /\ UNCHANGED generateLocals

\* The declarations before the loop, and let i = 0
EnterLoop ==
    /\ pc = "main"
    /\ command = "generate"
    /\ argIndex' = 0
    /\ connectionString' = NullArg
    /\ filename' = NullArg
    /\ filetype' = NullArg
    /\ pc' = "loop"
    /\ UNCHANGED <<argv, console, invocation, fileType>>
    /\ UNCHANGED generateLocals

\* The loop condition holds
InLoop == pc = "loop" /\ argIndex < Len(additionalArgs)

\* The loop condition holds and the argument is not the last one
BeforeLast == InLoop /\ argIndex # Len(additionalArgs) - 1

\* if (i === additionalArgs.length - 1) { continue; }
LastArgSkipped ==
    /\ InLoop
    /\ argIndex = Len(additionalArgs) - 1
    /\ argIndex' = argIndex + 1
    /\ UNCHANGED <<pc, argv, connectionString, filename, filetype, console,
                   invocation, fileType>>
    /\ UNCHANGED generateLocals

\* The branch of -connection-string with the assignment guarded, so that
\* a later flag does not replace the value of an earlier one
ConnectionStringTaken_firstOnly ==
    /\ BeforeLast
    /\ arg \in Range(GENERATE_COMMAND_OPTIONS.CONNECTION_STRING)
    /\ connectionString' =
           IF connectionString = NullArg THEN Given(nextArg) ELSE connectionString
    /\ argIndex' = argIndex + 2
    /\ UNCHANGED <<pc, argv, filename, filetype, console, invocation, fileType>>
    /\ UNCHANGED generateLocals

\* connectionString = additionalArgs[i + 1]; i += 1; and the loop's i += 1
ConnectionStringTaken ==
    /\ BeforeLast
    /\ arg \in Range(GENERATE_COMMAND_OPTIONS.CONNECTION_STRING)
    /\ connectionString' = Given(nextArg)
    /\ argIndex' = argIndex + 2
    /\ UNCHANGED <<pc, argv, filename, filetype, console, invocation, fileType>>
    /\ UNCHANGED generateLocals

\* filename = additionalArgs[i + 1]; i += 1
FilenameTaken ==
    /\ BeforeLast
    /\ arg \notin Range(GENERATE_COMMAND_OPTIONS.CONNECTION_STRING)
    /\ arg \in Range(GENERATE_COMMAND_OPTIONS.FILENAME)
    /\ filename' = Given(nextArg)
    /\ argIndex' = argIndex + 2
    /\ UNCHANGED <<pc, argv, connectionString, filetype, console, invocation,
                   fileType>>
    /\ UNCHANGED generateLocals

\* The third branch of the loop is taken
AtFileTypeFlag ==
    /\ BeforeLast
    /\ arg \notin Range(GENERATE_COMMAND_OPTIONS.CONNECTION_STRING)
    /\ arg \notin Range(GENERATE_COMMAND_OPTIONS.FILENAME)
    /\ arg \in Range(GENERATE_COMMAND_OPTIONS.FILETYPE)

\* The branch of -filetype without the comparison with "html" and "txt"
FileTypeTaken_unchecked ==
    /\ AtFileTypeFlag
    /\ filetype' = Given(nextArg)
    /\ argIndex' = argIndex + 2
    /\ UNCHANGED <<pc, argv, connectionString, filename, console, invocation,
                   fileType>>
    /\ UNCHANGED generateLocals

\* filetype = inputtedFileType; i += 1
FileTypeTaken ==
    /\ AtFileTypeFlag
    /\ (nextArg = FILETYPES.HTML \/ nextArg = FILETYPES.TXT)
    /\ filetype' = Given(nextArg)
    /\ argIndex' = argIndex + 2
    /\ UNCHANGED <<pc, argv, connectionString, filename, console, invocation,
                   fileType>>
    /\ UNCHANGED generateLocals

\* else { console.error(`Error: ... is not a valid file type.`); return; }
FileTypeRejected ==
    /\ AtFileTypeFlag
    /\ ~(nextArg = FILETYPES.HTML \/ nextArg = FILETYPES.TXT)
    /\ console' = Append(console, ERROR_FILE_TYPE)
    /\ pc' = "returned"
    /\ UNCHANGED <<argv, argIndex, connectionString, filename, filetype,
                   invocation, fileType>>
    /\ UNCHANGED generateLocals

\* No branch is taken: the argument is passed over
OtherArgSkipped ==
    /\ BeforeLast
    /\ arg \notin Range(GENERATE_COMMAND_OPTIONS.CONNECTION_STRING)
    /\ arg \notin Range(GENERATE_COMMAND_OPTIONS.FILENAME)
    /\ arg \notin Range(GENERATE_COMMAND_OPTIONS.FILETYPE)
    /\ argIndex' = argIndex + 1
    /\ UNCHANGED <<pc, argv, connectionString, filename, filetype, console,
                   invocation, fileType>>
    /\ UNCHANGED generateLocals

\* The loop has ended
AfterLoop == pc = "loop" /\ argIndex >= Len(additionalArgs)

\* if (connectionString === null) { console.error(...); return; }
ConnectionStringMissing ==
    /\ AfterLoop
    /\ connectionString = NullArg
    /\ console' = Append(console, ERROR_CONNECTION_STRING)
    /\ pc' = "returned"
    /\ UNCHANGED <<argv, argIndex, connectionString, filename, filetype,
                   invocation, fileType>>
    /\ UNCHANGED generateLocals

\* generate(connectionString, selectedFileName, selectedFileType), after
\* the two messages when no file name was given; generate runs up to its
\* first await
GenerateInvoked ==
    /\ AfterLoop
    /\ connectionString # NullArg
    /\ LET selectedFileName == OrElse(filename, DEFAULT_FILE_NAME)
           selectedFileType == OrElse(filetype, DEFAULT_FILE_TYPE)
       IN  /\ invocation' = <<[connectionString |-> connectionString[1],
                               filename |-> selectedFileName,
                               fileType |-> selectedFileType]>>
           /\ fileType' = selectedFileType
    /\ console' = IF filename = NullArg
                  THEN console \o <<LOG_WRITING, LOG_FILENAME_HINT>>
                  ELSE console
    /\ pc' = "connect"
    /\ UNCHANGED <<argv, argIndex, connectionString, filename, filetype>>
    /\ UNCHANGED generateLocals

MainNext ==
    \/ CommandNotRecognized
    \/ EnterLoop
    \/ LastArgSkipped
    \/ ConnectionStringTaken
    \/ FilenameTaken
    \/ FileTypeTaken
    \/ FileTypeRejected
    \/ OtherArgSkipped
    \/ ConnectionStringMissing
    \/ GenerateInvoked
    \/ Next

MainSpec == MainInit /\ [][MainNext]_vars

(***************************************************************************)
(* The older generate (src/src/main.ts): the start of one iteration of     *)
(* sortedEnums.forEach, with the loop that wraps the reference comment.    *)
(* insertSpan is the helper of src/unnamed/part_001.                       *)
(***************************************************************************)
\* The longest string the engine can make, scaled down: a longer result
\* throws a RangeError (invalid string length)
MaxStringLength == 200

OLD_MAX_COMMENT_LENGTH == 80

\* insertSpan(className, text, fileType) without a tooltip
insertSpan(className, text, ft) ==
    IF ft = "txt" THEN text
    ELSE <<"<","s","p","a","n"," ","c","l","a","s","s","=","\"">> \o className \o <<"\""," ",">">> \o text \o <<"<","/","s","p","a","n",">">>

\* The place at which /, [^,]*$/ matches: a comma followed by a space with
\* no comma after it, or 0 if there is none
commaTail(s) ==
    LET P == {p \in 1..(Len(s) - 1) :
                 /\ s[p] = "," /\ s[p + 1] = " "
                 /\ \A q \in (p + 1)..Len(s) : s[q] # ","}
    IN  IF P = {} THEN 0 ELSE CHOOSE p \in P : TRUE

\* comment.replace(/, [^,]*$/, ",\n--$&"): the match is put back after the
\* inserted text
replaceCommaTail(s) ==
    IF commaTail(s) = 0 THEN s
    ELSE SubSeq(s, 1, commaTail(s) - 1) \o <<",","\n","-","-">>
             \o SubSeq(s, commaTail(s), Len(s))

\* Object.keys(enums).sort(): the types of the USER-DEFINED columns
sortedEnums(cols) ==
    LET using == SelectSeq(cols, LAMBDA c : c.data_type = <<"U","S","E","R","-","D","E","F","I","N","E","D">>)
    IN  sortStrings(insertionOrder([i \in DOMAIN using |-> using[i].udt_name]))

\* Tables with a status column: one or more, with short and long names
WrapDatabases ==
    {Database([i \in DOMAIN names |-> WrapRow(names[i])], <<StatusEnum>>) :
        names \in SeqsDistinct(WrapNames, MaxRefs) \ {<<>>}}

WrapLoopInit ==
    /\ pc = "oldEnum"
    /\ db \in WrapDatabases
    /\ fileType \in {"txt", "html"}
    /\ comment = <<>>
    /\ columns = <<>>
    /\ enums = <<>>
    /\ schemaString = <<>>
    /\ schema = <<>>
    /\ longestColumnName = 0
    /\ longestColumnType = 0
    /\ longestColumnDefault = 0
    /\ file = NoFile
    /\ thrown = NoError
    /\ released = 0
    /\ poolEnded = FALSE
    /\ doneLogged = FALSE
    /\ argv = <<"generate", "-cs", "db", "-ft", fileType>>
    /\ argIndex = 4
    /\ connectionString = Given("db")
    /\ filename = NullArg
    /\ filetype = Given(fileType)
    /\ console = <<LOG_WRITING, LOG_FILENAME_HINT>>
    /\ invocation = <<[connectionString |-> "db",
                       filename |-> DEFAULT_FILE_NAME,
                       fileType |-> fileType]>>

\* What the steps of the older loop leave alone
wrapLoopRest == <<db, fileType, columns, enums, schema,
                  longestColumnName, longestColumnType, longestColumnDefault,
                  file, released, poolEnded, doneLogged, mainVars>>

\* let comment = insertSpan("comment", `-- Referenced in ...`, fileType)
OldComment ==
    /\ pc = "oldEnum"
    /\ comment' = insertSpan(<<"c","o","m","m","e","n","t">>,
                      referenceComment(
                          enumTableReferences(db.columns, sortedEnums(db.columns)[1])),
                      fileType)
    /\ pc' = "whileTest"
    /\ UNCHANGED <<schemaString, thrown>>
    /\ UNCHANGED wrapLoopRest

\* while (comment.length > 80): the condition holds
WhileEnter ==
    /\ pc = "whileTest"
    /\ Len(comment) > OLD_MAX_COMMENT_LENGTH
    /\ pc' = "whileBody"
    /\ UNCHANGED <<comment, schemaString, thrown>>
    /\ UNCHANGED wrapLoopRest

\* while (comment.length > 80): the condition does not hold
WhileExit ==
    /\ pc = "whileTest"
    /\ Len(comment) <= OLD_MAX_COMMENT_LENGTH
    /\ pc' = "afterWhile"
    /\ UNCHANGED <<comment, schemaString, thrown>>
    /\ UNCHANGED wrapLoopRest

\* comment = comment.replace(/, [^,]*$/, ",\n--$&")
WhileBody ==
    /\ pc = "whileBody"
    /\ Len(replaceCommaTail(comment)) <= MaxStringLength
    /\ comment' = replaceCommaTail(comment)
    /\ pc' = "whileTest"
    /\ UNCHANGED <<schemaString, thrown>>
    /\ UNCHANGED wrapLoopRest

\* The result of replace is longer than a string can be
WhileBodyRangeError ==
    /\ pc = "whileBody"
    /\ Len(replaceCommaTail(comment)) > MaxStringLength
    /\ thrown' = "RangeError"
    /\ pc' = "oldThrown"
    /\ UNCHANGED <<comment, schemaString>>
    /\ UNCHANGED wrapLoopRest

\* schemaString += `${comment}\n${tableType} ${formattedEnumName} {\n`
OldEnumHeader ==
    /\ pc = "afterWhile"
    /\ schemaString' = schemaString \o comment \o <<"\n">>
           \o insertSpan(<<"t","a","b","l","e","T","y","p","e">>, <<"e","n","u","m">>, fileType) \o <<" ">>
           \o insertSpan(<<"t","a","b","l","e","N","a","m","e">>, sortedEnums(db.columns)[1], fileType) \o <<" ">>
           \o insertSpan(<<"p","u","n","c","t","u","a","t","i","o","n">>, <<"{">>, fileType) \o <<"\n">>
    /\ pc' = "oldValues"
    /\ UNCHANGED <<comment, thrown>>
    /\ UNCHANGED wrapLoopRest

WrapLoopNext ==
    \/ OldComment
    \/ WhileEnter
    \/ WhileExit
    \/ WhileBody
    \/ WhileBodyRangeError
    \/ OldEnumHeader

\* The program keeps running: a step that can be taken is taken
WrapLoopSpec == WrapLoopInit /\ [][WrapLoopNext]_vars /\ WF_vars(WrapLoopNext)

(***************************************************************************)
(* Reading the rendered text back                                          *)
(***************************************************************************)
StartsWith(s, prefix) ==
    Len(s) >= Len(prefix) /\ SubSeq(s, 1, Len(prefix)) = prefix

EndsWith(s, suffix) ==
    Len(s) >= Len(suffix)
        /\ SubSeq(s, Len(s) - Len(suffix) + 1, Len(s)) = suffix

ContainsSeq(s, sub) ==
    \E i \in 1..(Len(s) - Len(sub) + 1) : SubSeq(s, i, i + Len(sub) - 1) = sub

Lines(text) == split(text, "\n")

\* The words of a text that are not empty
Words(text) == SelectSeq(split(text, " "), LAMBDA w : w # <<>>)

MaxOf(S) == CHOOSE m \in S : \A x \in S : x <= m

\* One line with every tag <...> removed; an unclosed tag runs to the end
StripTags(line) ==
    LET LT == {j \in DOMAIN line : line[j] = "<"}
        n == Cardinality(LT)
        open(k) == IF k = n + 1 THEN Len(line) + 1 ELSE Nth(LT, k)
        close(k) ==
            IF k = 0 THEN 0
            ELSE IF \E c \in open(k)..Len(line) : line[c] = ">"
            THEN CHOOSE c \in open(k)..Len(line) :
                     line[c] = ">" /\ \A m \in open(k)..(c - 1) : line[m] # ">"
            ELSE Len(line)
    IN  join([k \in 1..(n + 1) |-> SubSeq(line, close(k - 1) + 1, open(k) - 1)],
             <<>>)

\* A text with the tags of every line removed
StripMarkup(text) ==
    LET ls == Lines(text)
    IN  join([i \in DOMAIN ls |-> StripTags(ls[i])], <<"\n">>)

\* The enums that have a row, and the reference comment of each
EnumNames == {enums[i].enum_name : i \in DOMAIN enums}
CommentText(enumName) == referenceComment(enumTableReferences(columns, enumName))
CommentLines(enumName) == splitString(CommentText(enumName), COMMENT_MAX_PRINT_WIDTH)

\* The enum blocks have been rendered and are all of schemaString
EnumsRendered == pc = "layout"
\* The width loop has run
WidthsComputed == pc = "renderTables"
\* schemaString is complete
BodyRendered == pc = "write"

(***************************************************************************)
(* C1: after the width loop longestColumnDefault is the maximum, over the  *)
(* columns that have a default, of the length of the default plus the      *)
(* length of "DEFAULT", and 0 if no column has a default, in whatever      *)
(* order the columns are visited.                                          *)
(***************************************************************************)
DefaultWidths ==
    {Len(columns[i].column_default) + Len(KW_DEFAULT) :
        i \in {j \in DOMAIN columns : columns[j].column_default # Null}}

C1_DefaultWidthIsMaximum ==
    WidthsComputed => longestColumnDefault = MaxOf(DefaultWidths \cup {0})

(***************************************************************************)
(* C2: a reference comment longer than 80 characters is split into at      *)
(* least 2 lines and every line, the first and the later ones, has at most *)
(* 80 characters.                                                          *)
(***************************************************************************)
C2_WrappedLinesFit ==
    EnumsRendered =>
        \A e \in EnumNames :
            Len(CommentText(e)) > COMMENT_MAX_PRINT_WIDTH =>
                /\ Len(CommentLines(e)) >= 2
                /\ \A i \in DOMAIN CommentLines(e) :
                       Len(CommentLines(e)[i]) <= COMMENT_MAX_PRINT_WIDTH

(***************************************************************************)
(* C3: every line of a wrapped reference comment, as it stands in the      *)
(* document, starts with the comment marker "--".                          *)
(***************************************************************************)
enumHeaderPrefix ==
    wrapSpanIfHTML(fileType, MODEL_TYPE_NAMES.ENUM, <<"t","a","b","l","e","T","y","p","e">>, NoTooltip) \o <<" ">>

commentMarker ==
    IF fileType = "html" THEN <<"<","s","p","a","n"," ","c","l","a","s","s","=","\"","c","o","m","m","e","n","t","\"",">","-","-">> ELSE <<"-","-">>

\* The lines of schemaString that belong to a reference comment: the lines,
\* other than the empty line that ends a block, that are followed by an enum
\* header before any closing bracket
CommentLineIndexes(ls) ==
    {i \in DOMAIN ls :
        /\ ls[i] # <<>>
        /\ ~StartsWith(ls[i], enumHeaderPrefix)
        /\ \E h \in (i + 1)..Len(ls) :
              /\ StartsWith(ls[h], enumHeaderPrefix)
              /\ \A j \in i..(h - 1) : ls[j] # closeCurlyBracket(fileType)}

C3_EveryCommentLineMarked ==
    EnumsRendered =>
        LET ls == Lines(schemaString)
        IN  \A i \in CommentLineIndexes(ls) : StartsWith(ls[i], commentMarker)

HasDanglingType ==
    \E i \in DOMAIN db.columns :
        /\ db.columns[i].data_type = ENUM_DATA_TYPE
        /\ \A k \in DOMAIN db.enums :
               db.enums[k].enum_name # db.columns[i].udt_name

\* The run has ended and neither the database nor the file system failed
EndedWithoutOutsideFailure ==
    /\ pc \in {"done", "rejected"}
    /\ thrown \notin {"connect error", "query error", "write error"}

C5_DanglingTypeCompletes ==
    (HasDanglingType /\ EndedWithoutOutsideFailure) =>
        (pc = "done" /\ file # NoFile)

(***************************************************************************)
(* The table blocks of the rendered body                                   *)
(***************************************************************************)
tableHeaderPrefix ==
    wrapSpanIfHTML(fileType, MODEL_TYPE_NAMES.TABLE, <<"t","a","b","l","e","T","y","p","e">>, NoTooltip) \o <<" ">>

tableHeaderSuffix == <<" ">> \o openCurlyBracket(fileType)

IsTableHeader(line) ==
    StartsWith(line, tableHeaderPrefix) /\ EndsWith(line, tableHeaderSuffix)

\* The name in a table header line
HeaderName(line) ==
    StripTags(SubSeq(line, Len(tableHeaderPrefix) + 1,
                     Len(line) - Len(tableHeaderSuffix)))

\* The names of the table blocks of a body, in the order of the blocks
TableBlockNames(body) ==
    LET ls == Lines(body)
        H == {i \in DOMAIN ls : IsTableHeader(ls[i])}
    IN  [k \in 1..Cardinality(H) |-> HeaderName(ls[Nth(H, k)])]

\* The lines between the header of the first block of a table and the
\* closing bracket of that block
TableBlockLines(body, table) ==
    LET ls == Lines(body)
        h == CHOOSE i \in DOMAIN ls :
                 /\ IsTableHeader(ls[i]) /\ HeaderName(ls[i]) = table
                 /\ \A j \in 1..(i - 1) :
                        ~(IsTableHeader(ls[j]) /\ HeaderName(ls[j]) = table)
        end == CHOOSE i \in (h + 1)..Len(ls) :
                 /\ ls[i] = closeCurlyBracket(fileType)
                 /\ \A j \in (h + 1)..(i - 1) : ls[j] # closeCurlyBracket(fileType)
    IN  SubSeq(ls, h + 1, end - 1)

\* The text of a rendered line
LineText(line) == IF fileType = "html" THEN StripTags(line) ELSE line

RowTables == {db.columns[i].table_name : i \in DOMAIN db.columns}

\* The rows of a table in the order of the column rows as they were fetched
RowsOf(table) == SelectSeq(db.columns, LAMBDA r : r.table_name = table)

\* The rows of a table, the non-nullable ones first, each group in the order
\* of the fetched rows
Partitioned(table) ==
    SelectSeq(RowsOf(table), LAMBDA r : r.is_nullable = "NO")
        \o SelectSeq(RowsOf(table), LAMBDA r : r.is_nullable = "YES")

\* The line that the table block has for a row
LineOf(row) ==
    TAB \o columnLine(fileType, [column |-> row, type |-> displayedType(row)],
                      longestColumnName, longestColumnType)

(***************************************************************************)
(* C6: every table name of the column rows has exactly one table block,    *)
(* there is no other table block, and the blocks are in ascending order of *)
(* the table names.                                                        *)
(***************************************************************************)
C6_OneBlockPerTableSorted ==
    BodyRendered =>
        LET names == TableBlockNames(schemaString)
        IN  /\ \A t \in RowTables :
                   Cardinality({k \in DOMAIN names : names[k] = t}) = 1
            /\ \A k \in DOMAIN names : names[k] \in RowTables
            /\ \A k \in 1..(Len(names) - 1) : StrLess(names[k], names[k + 1])

C6_Witness ==
    /\ BodyRendered
    /\ Len(db.columns) = 3
    /\ db.columns[1].table_name = <<"b">>
    /\ db.columns[2].table_name = <<"a">>
    /\ db.columns[3].table_name = <<"b">>
    /\ TableBlockNames(schemaString) = <<<<"a">>, <<"b">>>>

(***************************************************************************)
(* C7: in every table block the lines of the non-nullable columns come     *)
(* first and those of the nullable columns after them, each group in the   *)
(* order of the input rows.                                                *)
(***************************************************************************)
C7_StablePartition ==
    BodyRendered =>
        \A t \in RowTables :
            TableBlockLines(schemaString, t) =
                [i \in DOMAIN Partitioned(t) |-> LineOf(Partitioned(t)[i])]

C7_Witness ==
    /\ BodyRendered
    /\ \E t \in RowTables :
          /\ Len(RowsOf(t)) = 3
          /\ RowsOf(t)[1].is_nullable = "YES"
          /\ RowsOf(t)[2].is_nullable = "NO"
          /\ RowsOf(t)[3].is_nullable = "YES"
          /\ Len(TableBlockLines(schemaString, t)) = 3

(***************************************************************************)
(* C8: the line of a column row has a REFERENCES target(column) clause if  *)
(* and only if the row has both a foreign-key table and a foreign-key      *)
(* column.                                                                 *)
(***************************************************************************)
\* The row that the i-th line of the block of table t is rendered from
RowAt(t, i) == Partitioned(t)[i]

ReferencesText(row) ==
    KW_REFERENCES \o <<" ">> \o row.foreign_key_table \o <<"(">>
        \o row.foreign_key_column \o <<")"," ">>

C8_ReferencesIffBoth ==
    BodyRendered =>
        \A t \in RowTables :
            LET ls == TableBlockLines(schemaString, t)
            IN  \A i \in DOMAIN ls :
                    LET row == RowAt(t, i)
                        both == /\ row.foreign_key_table # Null
                                /\ row.foreign_key_column # Null
                    IN  /\ ContainsSeq(LineText(ls[i]), KW_REFERENCES) <=> both
                        /\ both => ContainsSeq(LineText(ls[i]), ReferencesText(row))

C8_Witness ==
    /\ BodyRendered
    /\ \E i \in DOMAIN db.columns :
          /\ db.columns[i].foreign_key_table # Null
          /\ db.columns[i].foreign_key_column # Null
          /\ ContainsSeq(LineText(TableBlockLines(schemaString,
                                      db.columns[i].table_name)[1]),
                         <<"R","E","F","E","R","E","N","C","E","S"," ","a","(","i","d",")"," ">>)

(***************************************************************************)
(* C9: the line of a column row has no ON DELETE clause exactly when the   *)
(* delete rule of the row is "NO ACTION", and no ON UPDATE clause exactly  *)
(* when its update rule is "NO ACTION".                                    *)
(* Amended: ... exactly when the row has no delete rule (null) or its      *)
(* delete rule is "NO ACTION"; likewise for the update rule.               *)
(***************************************************************************)
C9_OmittedIffNoAction ==
    BodyRendered =>
        \A t \in RowTables :
            LET ls == TableBlockLines(schemaString, t)
            IN  \A i \in DOMAIN ls :
                    /\ ~ContainsSeq(LineText(ls[i]), KW_ON_DELETE)
                           <=> RowAt(t, i).foreign_key_delete_rule = NO_ACTION
                    /\ ~ContainsSeq(LineText(ls[i]), KW_ON_UPDATE)
                           <=> RowAt(t, i).foreign_key_update_rule = NO_ACTION

RuleOmittedOrShown(text, keyword, rule) ==
    IF rule = Null \/ rule = NO_ACTION
    THEN ~ContainsSeq(text, keyword)
    ELSE ContainsSeq(text, keyword \o <<" ">> \o rule \o <<" ">>)

C9_OmittedIffNoRuleOrNoAction ==
    BodyRendered =>
        \A t \in RowTables :
            LET ls == TableBlockLines(schemaString, t)
            IN  \A i \in DOMAIN ls :
                    /\ RuleOmittedOrShown(LineText(ls[i]), KW_ON_DELETE,
                                          RowAt(t, i).foreign_key_delete_rule)
                    /\ RuleOmittedOrShown(LineText(ls[i]), KW_ON_UPDATE,
                                          RowAt(t, i).foreign_key_update_rule)

C9_Witness ==
    /\ BodyRendered
    /\ \E i \in DOMAIN db.columns :
          /\ db.columns[i].foreign_key_delete_rule = NO_ACTION
          /\ db.columns[i].foreign_key_update_rule = <<"S","E","T"," ","N","U","L","L">>
          /\ ContainsSeq(LineText(TableBlockLines(schemaString,
                                      db.columns[i].table_name)[1]),
                         <<"O","N"," ","U","P","D","A","T","E"," ","S","E","T"," ","N","U","L","L"," ">>)

(***************************************************************************)
(* C10: the decorated (html) document with all markup removed equals, up   *)
(* to white space, the plain (txt) document of the same rows: same header  *)
(* comments, same blocks, same lines, same padding.                        *)
(* Amended: the body (the enum and table blocks) and the generation-date   *)
(* comment of the decorated document, with the markup removed, are exactly *)
(* those of the plain document, character for character; the rest of the   *)
(* two documents differs.                                                  *)
(***************************************************************************)
NonBlank(text) == SelectSeq(text, LAMBDA c : c \notin {" ", "\n"})

HtmlWritten ==
    pc = "finally" /\ file # NoFile /\ fileType = "html" /\ db.columns # <<>>

PlainBody == renderBody("txt", db.columns, db.enums)

\* The first place at which sub occurs in s
IndexOf(s, sub) ==
    CHOOSE i \in 1..(Len(s) - Len(sub) + 1) :
        /\ SubSeq(s, i, i + Len(sub) - 1) = sub
        /\ \A j \in 1..(i - 1) : SubSeq(s, j, j + Len(sub) - 1) # sub

\* The text that the written html file shows: the content of its <pre>
\* element up to the toggle button (the head holds only style and script)
ShownText(html) ==
    LET preTag == <<"<","p","r","e"," ","c","l","a","s","s","=","\"","p","r","e","\"",">">>
        from == IndexOf(html, preTag) + Len(preTag)
        to == IndexOf(html, <<"<","b","u","t","t","o","n"," ">>) - 1
    IN  StripMarkup(SubSeq(html, from, to))

\* The original statement, with every space and line break ignored
C10_StrippedHtmlIsTxt ==
    HtmlWritten =>
        NonBlank(ShownText(file)) = NonBlank(txtString("txt", PlainBody))

C10_StrippedBodyIsTxtBody ==
    (BodyRendered /\ fileType = "html") =>
        /\ StripMarkup(schemaString) = PlainBody
        /\ StripTags(formattedCreatedOnComment("html"))
               = formattedCreatedOnComment("txt")

C10_Witness ==
    /\ BodyRendered
    /\ fileType = "html"
    /\ Cardinality(RowTables) = 2
    /\ enums # <<>>
    /\ \E i \in DOMAIN db.columns : db.columns[i].is_nullable = "YES"
    /\ \E i \in DOMAIN db.columns : db.columns[i].column_default # Null
    /\ StripMarkup(schemaString) # schemaString

(***************************************************************************)
(* C11: after the width loop longestColumnName is the maximum, over all    *)
(* columns of all tables, of the length of the column name plus 1 if the   *)
(* column is nullable, and longestColumnType is the maximum of the length  *)
(* of the displayed type: the user-defined type name when the declared     *)
(* type is USER-DEFINED, the declared type otherwise.                      *)
(***************************************************************************)
NameWidths ==
    {Len(db.columns[i].column_name)
        + (IF db.columns[i].is_nullable = "YES" THEN 1 ELSE 0) :
        i \in DOMAIN db.columns}

TypeWidths ==
    {IF db.columns[i].data_type = <<"U","S","E","R","-","D","E","F","I","N","E","D">>
     THEN Len(db.columns[i].udt_name) ELSE Len(db.columns[i].data_type) :
        i \in DOMAIN db.columns}

C11_NameAndTypeWidthsAreMaxima ==
    WidthsComputed =>
        /\ longestColumnName = MaxOf(NameWidths \cup {0})
        /\ longestColumnType = MaxOf(TypeWidths \cup {0})

\* Two tables; the widest name is a nullable one, whose marker counts, and
\* the widest type is the name of a user-defined type
C11_Witness ==
    /\ WidthsComputed
    /\ Cardinality(RowTables) = 2
    /\ \A i \in DOMAIN db.columns :
           longestColumnName > Len(db.columns[i].column_name)
    /\ \E i \in DOMAIN db.columns :
           /\ db.columns[i].data_type = ENUM_DATA_TYPE
           /\ longestColumnType = Len(db.columns[i].udt_name)
           /\ longestColumnType < Len(ENUM_DATA_TYPE)

(***************************************************************************)
(* C12: in plain mode the name field (name and nullability marker) of      *)
(* every column line of every table has exactly nameWidth + 2 characters   *)
(* and the type field exactly typeWidth + 2, so that the type field and    *)
(* what follows it start at the same offsets in every line.                *)
(***************************************************************************)
nameWidth == MaxOf(NameWidths \cup {0})
typeWidth == MaxOf(TypeWidths \cup {0})

MarkedName(row) ==
    row.column_name \o (IF row.is_nullable = "YES" THEN <<"?">> ELSE <<>>)

\* The line has the two fields of a row at the fixed offsets
FieldsAtOffsets(line, row) ==
    LET typeAt == TAB_LENGTH + nameWidth + COLUMN_PADDING
        restAt == typeAt + typeWidth + COLUMN_PADDING
    IN  /\ Len(line) >= restAt
        /\ SubSeq(line, TAB_LENGTH + 1, typeAt)
               = padEnd(MarkedName(row), nameWidth + COLUMN_PADDING)
        /\ SubSeq(line, typeAt + 1, restAt)
               = padEnd(displayedType(row), typeWidth + COLUMN_PADDING)

C12_FieldsPaddedToGlobalWidths ==
    (BodyRendered /\ fileType = "txt") =>
        \A t \in RowTables :
            LET ls == TableBlockLines(schemaString, t)
            IN  \A i \in DOMAIN ls : FieldsAtOffsets(ls[i], RowAt(t, i))

(***************************************************************************)
(* The enum blocks of the rendered body                                    *)
(***************************************************************************)
IsEnumHeader(line) ==
    StartsWith(line, enumHeaderPrefix) /\ EndsWith(line, tableHeaderSuffix)

EnumHeaderName(line) ==
    StripTags(SubSeq(line, Len(enumHeaderPrefix) + 1,
                     Len(line) - Len(tableHeaderSuffix)))

EnumHeaderIndexes(ls) == {i \in DOMAIN ls : IsEnumHeader(ls[i])}
TableHeaderIndexes(ls) == {i \in DOMAIN ls : IsTableHeader(ls[i])}

\* The names of the enum blocks of a body, in the order of the blocks
EnumBlockNames(body) ==
    LET ls == Lines(body)
        H == EnumHeaderIndexes(ls)
    IN  [k \in 1..Cardinality(H) |-> EnumHeaderName(ls[Nth(H, k)])]

(***************************************************************************)
(* C13: in the body every enum block comes before every table block, and   *)
(* the enum blocks are in ascending order of the enum names.               *)
(***************************************************************************)
C13_EnumsFirstAndSorted ==
    BodyRendered =>
        LET ls == Lines(schemaString)
            names == EnumBlockNames(schemaString)
        IN  /\ \A e \in EnumHeaderIndexes(ls) :
                   \A t \in TableHeaderIndexes(ls) : e < t
            /\ \A k \in 1..(Len(names) - 1) : StrLess(names[k], names[k + 1])

\* The enum rows come as status, mood and the blocks as mood, status, with
\* two table blocks after them
C13_Witness ==
    /\ BodyRendered
    /\ db.enums = <<StatusEnum, MoodEnum>>
    /\ EnumBlockNames(schemaString) = <<<<"m","o","o","d">>, <<"s","t","a","t","u","s">>>>
    /\ Len(TableBlockNames(schemaString)) = 2

(***************************************************************************)
(* C14: the reference comment of every enum block lists exactly the tables *)
(* that have a column of that enum type, each table once, in the order in  *)
(* which the tables first appear in the column rows; the block then lists  *)
(* the labels of the enum one per line in the order of the enum row.       *)
(***************************************************************************)
\* The rows that use the enum, and those of them that are the first of
\* their table to do so
UsingRows(enumName) ==
    {i \in DOMAIN db.columns :
        /\ db.columns[i].data_type = <<"U","S","E","R","-","D","E","F","I","N","E","D">>
        /\ db.columns[i].udt_name = enumName}

FirstUses(enumName) ==
    {i \in UsingRows(enumName) :
        \A j \in UsingRows(enumName) :
            j < i => db.columns[j].table_name # db.columns[i].table_name}

ReferringTables(enumName) ==
    [k \in 1..Cardinality(FirstUses(enumName)) |->
        db.columns[Nth(FirstUses(enumName), k)].table_name]

LabelsOf(enumName) ==
    (CHOOSE r \in Range(db.enums) : r.enum_name = enumName).enum_values

\* The header line of the block of an enum
EnumHeaderIndex(ls, enumName) ==
    CHOOSE h \in EnumHeaderIndexes(ls) : EnumHeaderName(ls[h]) = enumName

\* The text of the lines of the block before its header: those after the
\* empty line that ends the block before it
EnumCommentLines(ls, enumName) ==
    LET h == EnumHeaderIndex(ls, enumName)
        blank == {j \in 1..(h - 1) : ls[j] = <<>>}
        from == IF blank = {} THEN 1 ELSE MaxOf(blank) + 1
    IN  [k \in 1..(h - from) |-> LineText(ls[from + k - 1])]

\* The text of the lines between the header and the closing bracket
EnumLabelLines(ls, enumName) ==
    LET h == EnumHeaderIndex(ls, enumName)
        end == CHOOSE i \in (h + 1)..Len(ls) :
                 /\ ls[i] = closeCurlyBracket(fileType)
                 /\ \A j \in (h + 1)..(i - 1) : ls[j] # closeCurlyBracket(fileType)
    IN  [k \in 1..(end - h - 1) |-> LineText(ls[h + k])]

C14_ReferencesAndLabelsInOrder ==
    BodyRendered =>
        LET ls == Lines(schemaString)
        IN  \A e \in {db.enums[k].enum_name : k \in DOMAIN db.enums} :
                /\ Cardinality({h \in EnumHeaderIndexes(ls) :
                                   EnumHeaderName(ls[h]) = e}) = 1
                /\ Words(join(EnumCommentLines(ls, e), <<" ">>))
                       = Words(<<"-","-"," ","R","e","f","e","r","e","n","c","e","d"," ","i","n"," ">>
                                 \o join(ReferringTables(e), <<","," ">>) \o <<".">>)
                /\ EnumLabelLines(ls, e)
                       = [k \in DOMAIN LabelsOf(e) |-> TAB \o LabelsOf(e)[k]]

\* status is used by two columns of table b and, between them, by one of
\* table a: the comment names b, then a
C14_Witness ==
    /\ BodyRendered
    /\ \E e \in {db.enums[k].enum_name : k \in DOMAIN db.enums} :
          /\ Cardinality(UsingRows(e)) = 3
          /\ ReferringTables(e) = <<<<"b">>, <<"a">>>>
          /\ EnumCommentLines(Lines(schemaString), e)
                 = <<<<"-","-"," ","R","e","f","e","r","e","n","c","e","d"," ","i","n"," ","b",","," ","a",".">>>>
          /\ EnumLabelLines(Lines(schemaString), e) = <<<<" "," ","o","n">>, <<" "," ","o","f","f">>>>

(***************************************************************************)
(* C15: in every run of generate the file is written at most once, and     *)
(* only after the column rows, then the enum rows, have been fetched and   *)
(* the whole document has been composed; when a query or a rendering step  *)
(* fails no file is written.                                               *)
(***************************************************************************)
\* The positions of generate after the call of fs.writeFileSync
AfterWrite == {"finally", "poolEnd", "done", "rejected"}

\* A file exists only after the write, with no exception, and is the whole
\* document of the fetched rows
FileIsWholeDocument ==
    file # NoFile =>
        /\ pc \in AfterWrite
        /\ thrown = NoError
        /\ columns = sortColumns(db.columns)
        /\ enums = db.enums
        /\ file = fileContent(fileType, renderBody(fileType, db.columns, db.enums))

\* The file changes only in the step from the write position, which is
\* entered only from the end of the rendering and with no file yet
WriteStepOnly ==
    /\ file' # file => (pc = "write" /\ file = NoFile /\ pc' = "finally")
    /\ pc' = "write" => (pc = "renderTables" /\ file = NoFile)

C15_WrittenOnceWhenComplete == [][WriteStepOnly]_vars /\ []FileIsWholeDocument

\* A document with two tables and an enum block has been written
C15_Witness ==
    /\ pc = "finally"
    /\ file # NoFile
    /\ Cardinality(RowTables) = 2
    /\ db.enums # <<>>
    /\ file = fileContent(fileType, schemaString)

(***************************************************************************)
(* Reading the command line: the places of the arguments at which the      *)
(* loop looks for a flag that has a value after it.  An argument that was  *)
(* taken as the value of a flag, and the last argument, are not such       *)
(* places.                                                                 *)
(***************************************************************************)
AllFlags ==
    Range(GENERATE_COMMAND_OPTIONS.CONNECTION_STRING)
        \cup Range(GENERATE_COMMAND_OPTIONS.FILENAME)
        \cup Range(GENERATE_COMMAND_OPTIONS.FILETYPE)

FileTypeFlags == {"-filetype", "-ft"}
ConnectionStringFlags == {"-connection-string", "-cs"}

RECURSIVE FlagPlaces(_, _)
FlagPlaces(a, k) ==
    IF k >= Len(a) THEN {}
    ELSE IF a[k] \in AllFlags THEN {k} \cup FlagPlaces(a, k + 2)
    ELSE FlagPlaces(a, k + 1)

\* main has returned or has called generate, for the generate command
MainEnded == pc \notin {"main", "loop"} /\ command = "generate"

GenerateNotInvoked ==
    /\ invocation = NotInvoked
    /\ pc = "returned"
    /\ file = NoFile
    /\ released = 0 /\ ~poolEnded

Reported(message) == message \in Range(console)

(***************************************************************************)
(* C16: generate is only ever invoked with file type "txt" or "html":      *)
(* whenever the arguments contain -filetype or -ft followed by another     *)
(* value, main reports an error and generate is never invoked.             *)
(* Amended: ... whenever the loop finds -filetype or -ft at a place where  *)
(* it looks for a flag, followed by another value, ...; a -filetype or -ft *)
(* that was taken as the value of the flag before it is not looked at.     *)
(***************************************************************************)
InvokedWithValidFileType ==
    invocation # NotInvoked =>
        /\ invocation[1].fileType \in {"txt", "html"}
        /\ fileType = invocation[1].fileType

C16_BadFileTypeAnywhereRejected ==
    /\ InvokedWithValidFileType
    /\ (/\ MainEnded
        /\ \E k \in 1..(Len(additionalArgs) - 1) :
              /\ additionalArgs[k] \in FileTypeFlags
              /\ additionalArgs[k + 1] \notin {"txt", "html"})
           => (Reported(ERROR_FILE_TYPE) /\ GenerateNotInvoked)

C16_BadFileTypeAtFlagRejected ==
    /\ InvokedWithValidFileType
    /\ (/\ MainEnded
        /\ \E k \in FlagPlaces(additionalArgs, 1) :
              /\ additionalArgs[k] \in FileTypeFlags
              /\ additionalArgs[k + 1] \notin {"txt", "html"})
           => (Reported(ERROR_FILE_TYPE) /\ GenerateNotInvoked)

\* A connection string was given and then a file type that does not exist
C16_Witness ==
    /\ MainEnded
    /\ additionalArgs = <<"-cs", "db", "-ft", "pdf">>
    /\ connectionString = Given("db")
    /\ console = <<ERROR_FILE_TYPE>>
    /\ GenerateNotInvoked

(***************************************************************************)
(* C17: the connection string is required: when the loop took no value for *)
(* -connection-string or -cs (the flag is absent, or is the last argument, *)
(* or stands only where no flag is looked for) main reports an error and   *)
(* generate is never invoked; when generate is invoked its connection      *)
(* string is the argument after the last -connection-string or -cs that    *)
(* the loop found as a flag.                                               *)
(***************************************************************************)
ConnectionStringPlaces ==
    {k \in FlagPlaces(additionalArgs, 1) :
        additionalArgs[k] \in ConnectionStringFlags}

\* The flag is not among the arguments, unless as the last one
FlagAbsentOrLast ==
    \A k \in 1..(Len(additionalArgs) - 1) :
        additionalArgs[k] \notin ConnectionStringFlags

C17_ConnectionStringRequired ==
    /\ (MainEnded /\ (FlagAbsentOrLast \/ ConnectionStringPlaces = {}))
           => (console # <<>> /\ GenerateNotInvoked)
    /\ invocation # NotInvoked =>
           /\ ConnectionStringPlaces # {}
           /\ invocation[1].connectionString
                  = additionalArgs[MaxOf(ConnectionStringPlaces) + 1]

\* Two flags with different values: generate gets the second value
C17_Witness ==
    /\ pc = "connect"
    /\ additionalArgs = <<"-cs", "html", "-connection-string", "db">>
    /\ invocation # NotInvoked
    /\ invocation[1].connectionString = "db"

(***************************************************************************)
(* C18: in every column line the segments stand in this order: the padded  *)
(* name with its nullability marker, the padded type, and then, each only  *)
(* if present, the DEFAULT clause, the REFERENCES clause, the ON DELETE    *)
(* clause and the ON UPDATE clause.                                        *)
(***************************************************************************)
RuleClauseText(keyword, rule) ==
    IF rule = Null \/ rule = NO_ACTION THEN <<>>
    ELSE keyword \o <<" ">> \o rule \o <<" ">>

\* The clauses that a row has, in the fixed order
ClausesText(row) ==
    (IF row.column_default # Null
     THEN KW_DEFAULT \o <<" ">> \o row.column_default \o <<" ">> ELSE <<>>)
    \o (IF row.foreign_key_table # Null /\ row.foreign_key_column # Null
        THEN ReferencesText(row) ELSE <<>>)
    \o RuleClauseText(KW_ON_DELETE, row.foreign_key_delete_rule)
    \o RuleClauseText(KW_ON_UPDATE, row.foreign_key_update_rule)

\* The text is the indentation, a name field that starts with the name, the
\* padded type, and the clauses of the row
SegmentsInOrder(text, row) ==
    LET tail == padEnd(displayedType(row), typeWidth + COLUMN_PADDING)
                    \o ClausesText(row)
        field == SubSeq(text, TAB_LENGTH + 1, Len(text) - Len(tail))
    IN  /\ StartsWith(text, TAB)
        /\ EndsWith(text, tail)
        /\ field # <<>>
        /\ field[1] = row.column_name[1]
        /\ StartsWith(MarkedName(row), trim(field))

C18_SegmentsInFixedOrder ==
    BodyRendered =>
        \A t \in RowTables :
            LET ls == TableBlockLines(schemaString, t)
            IN  \A i \in DOMAIN ls : SegmentsInOrder(LineText(ls[i]), RowAt(t, i))

\* A row that has all four clauses
C18_Witness ==
    /\ BodyRendered
    /\ \E i \in DOMAIN db.columns :
          /\ ClausesText(db.columns[i])
                = <<"D","E","F","A","U","L","T"," ","0"," ","R","E","F","E","R","E","N","C","E","S"," ","a","(","i","d",")"," ","O","N"," ","D","E","L","E","T","E"," ","C","A","S","C","A","D","E"," ","O","N"," ","U","P","D","A","T","E"," ","S","E","T"," ","N","U","L","L"," ">>
          /\ EndsWith(LineText(TableBlockLines(schemaString,
                                   db.columns[i].table_name)[1]),
                      <<"i","n","t","e","g","e","r"," "," ">> \o ClausesText(db.columns[i]))

(***************************************************************************)
(* C19: in plain mode the name field of the line of every column row is    *)
(* exactly the name of the column followed by one "?" when the column is   *)
(* nullable, and exactly the name, nothing added and nothing removed, when *)
(* it is not; also for a name that has a "?" of its own.                   *)
(***************************************************************************)
\* What stands in a line between the indentation and the padded type
NameField(text, row) ==
    SubSeq(text, TAB_LENGTH + 1,
           Len(text) - Len(padEnd(displayedType(row), typeWidth + COLUMN_PADDING)
                               \o ClausesText(row)))

C19_NameFieldIsNameAndMarker ==
    (BodyRendered /\ fileType = "txt") =>
        \A t \in RowTables :
            LET ls == TableBlockLines(schemaString, t)
            IN  \A i \in DOMAIN ls :
                    trim(NameField(ls[i], RowAt(t, i))) = MarkedName(RowAt(t, i))

(***************************************************************************)
(* C20: every enum of the enum rows is rendered as one enum block, also an *)
(* enum that no column row has as its type: generation then completes,     *)
(* with a reference comment over no tables, and does not fail.             *)
(***************************************************************************)
HasUnreferencedEnum ==
    \E k \in DOMAIN db.enums : UsingRows(db.enums[k].enum_name) = {}

C20_UnreferencedEnumRendered ==
    /\ (HasUnreferencedEnum /\ EndedWithoutOutsideFailure) =>
           (pc = "done" /\ thrown = NoError /\ file # NoFile)
    /\ BodyRendered =>
           \A k \in DOMAIN db.enums :
               Cardinality({h \in DOMAIN EnumBlockNames(schemaString) :
                   EnumBlockNames(schemaString)[h] = db.enums[k].enum_name}) = 1

(***************************************************************************)
(* C21: in src/src/main.ts the loop                                        *)
(*   while (comment.length > 80) comment = comment.replace(...)            *)
(* terminates for every reference comment, in txt and in html mode, also   *)
(* for a comment of more than 80 characters and for one without a comma.   *)
(* Terminating is taken here as leaving the loop, be it by an exception.   *)
(***************************************************************************)
LoopLeft == pc \in {"afterWhile", "oldValues", "oldThrown"}

C21_WrapLoopTerminates == <>LoopLeft

(***************************************************************************)
(* C22: on every path of generate after pool.connect() has succeeded,      *)
(* whether the queries, the rendering and the write succeed or one of them *)
(* throws, client.release() is called exactly once and pool.end() is       *)
(* called after it; the client is never released before the queries have   *)
(* finished or failed.                                                     *)
(***************************************************************************)
\* The positions of generate inside the try block
InTry == {"columnsQuery", "enumsQuery", "renderEnums", "layout",
          "renderTables", "write"}

\* The positions of generate after client.release()
AfterRelease == {"poolEnd", "done", "rejected"}

\* The try block has run to its end, the write after both queries included,
\* or an exception has been thrown in it
QueriesFinishedOrFailed == file # NoFile \/ thrown # NoError

ReleaseDiscipline ==
    /\ released \in 0..1
    /\ released = 1 => (pc \in AfterRelease /\ QueriesFinishedOrFailed)
    /\ poolEnded => released = 1
    /\ (pc \in {"done", "rejected"} /\ thrown # "connect error") =>
           (released = 1 /\ poolEnded)

\* The try block is left only into the finally block, with the write done or
\* an exception thrown; the client is released only there, and pool.end() is
\* called only when the client has been released
ReleaseStepOnly ==
    /\ (pc \in InTry /\ pc' \notin InTry) =>
           (pc' = "finally" /\ (file' # NoFile \/ thrown' # NoError))
    /\ released' # released => (pc = "finally" /\ released = 0)
    /\ poolEnded' # poolEnded => released = 1

C22_ReleasedOnceThenPoolEnded ==
    /\ []ReleaseDiscipline
    /\ [][ReleaseStepOnly]_vars
    /\ (pc = "finally") ~> (released = 1 /\ poolEnded)

\* A query has failed, the client has been released and the pool ended
C22_Witness ==
    /\ pc = "rejected"
    /\ thrown = "query error"
    /\ released = 1
    /\ poolEnded

(***************************************************************************)
(* C23: the completion message "Done!" (and, in html mode, the hint to     *)
(* open the generated file) is printed only in runs in which the document  *)
(* file was written; a run in which a query or the rendering throws prints *)
(* no "Done!".                                                             *)
(***************************************************************************)
C23_DoneOnlyAfterWrite ==
    doneLogged => (file # NoFile /\ thrown = NoError)

\* schemaString at the write is renderBody of the fetched rows
BodyIsRenderBody ==
    BodyRendered => schemaString = renderBody(fileType, db.columns, db.enums)

====
